---- MODULE Spec2Model ----
(***************************************************************************)
(* The `sync` command of rojo (src/cli/sync.rs): merge a project into an   *)
(* existing place/model file.  A behaviour is one invocation of            *)
(* SyncCommand::run, followed (optionally) by a second invocation whose    *)
(* input is the file the first one wrote.                                  *)
(***************************************************************************)
EXTENDS Integers, Sequences, FiniteSets, TLC

(* ------------------------------ bounds --------------------------------- *)

\* Largest number of top-level instances in the input file.
MaxTop == 2

\* Largest number of children of the desired snapshot's root.
MaxKids == 2

(* --------------------------- values and options ------------------------ *)

\* Rust's Option<T>: None, Some(v).
None == <<>>

Some(v) == <<v>>

IsSome(o) == o /= None

\* A property map: property name -> value.
NoProps == [k \in {} |-> 0]

P1 == [k \in {"p"} |-> 1]

P2 == [k \in {"p"} |-> 2]

Q1 == [k \in {"q"} |-> 1]

Q2 == [k \in {"q"} |-> 2]

P1Q1 == [k \in {"p", "q"} |-> 1]

\* A detached instance description (a serialized instance, an
\* InstanceSnapshot): class, name, properties, ordered children.
Node(c, n, ps, kids) == [class |-> c, name |-> n, props |-> ps, children |-> kids]

(* ------------------------------ paths ---------------------------------- *)

\* A path is a stem and an extension; ext = "" is a path without extension.
Path(s, e) == [stem |-> s, ext |-> e]

NoPath == Path("", "")

\* The extensions the command-line paths are drawn from.
Exts == {"rbxl", "rbxlx", "rbxm", "rbxmx", "txt", "RBXL", ""}

\* The four extensions the specification names.
KnownExts == {"rbxl", "rbxlx", "rbxm", "rbxmx"}

\* FromPath, were the extension compared without regard to case.
FromPathAnyCase(path) ==
    CASE path.ext = "rbxlx" -> Some("Rbxlx")
      [] path.ext = "rbxmx" -> Some("Rbxmx")
      [] path.ext \in {"rbxl", "RBXL"} -> Some("Rbxl")
      [] path.ext = "rbxm"  -> Some("Rbxm")
      [] OTHER              -> None

\* FileKind::from_path: the extension decides, compared case-sensitively.
FromPath(path) ==
    CASE path.ext = "rbxlx" -> Some("Rbxlx")
      [] path.ext = "rbxmx" -> Some("Rbxmx")
      [] path.ext = "rbxl"  -> Some("Rbxl")
      [] path.ext = "rbxm"  -> Some("Rbxm")
      [] OTHER              -> None

IsModelKind(kind) == kind \in {"Rbxm", "Rbxmx"}

\* The codec each kind is read and written with.
CodecOf(kind) == IF kind \in {"Rbxl", "Rbxm"} THEN "binary" ELSE "xml"

(* ------------------------------ errors --------------------------------- *)

\* An error as the user sees it: the text, the path it displays (NoPath when
\* it displays none) and the extensions its text lists.
Err(stage, text, path, exts) ==
    [stage |-> stage, text |-> text, path |-> path, exts |-> exts]

NoErr == Err("none", "", NoPath, {})

UNKNOWN_INPUT_KIND_ERR ==
    Err("input_kind",
        "Could not detect what kind of file was inputted. Expected input file to end in .rbxl, .rbxlx, .rbxm, or .rbxmx.",
        NoPath, {"rbxl", "rbxlx", "rbxm", "rbxmx"})

UNKNOWN_OUTPUT_KIND_ERR ==
    Err("output_kind",
        "Could not detect what kind of file to output. Expected output file to end in .rbxl, .rbxlx, .rbxm, or .rbxmx.",
        NoPath, {"rbxl", "rbxlx", "rbxm", "rbxmx"})

\* The with_context messages of read_dom.
DecodeErr(path, kind) ==
    Err("decode",
        CASE kind = "Rbxl"  -> "Could not deserialize binary place file at {}"
          [] kind = "Rbxlx" -> "Could not deserialize XML place file at {}"
          [] kind = "Rbxm"  -> "Could not deserialize binary model file at {}"
          [] OTHER          -> "Could not deserialize XML model file at {}",
        path, {})

\* The bail! of process_model_dom.
ModelShapeErr ==
    Err("model_shape",
        "Rojo does not currently support models with more than one Instance at the Root!",
        NoPath, {})

\* fs_err's failure to open or create a file names the path.
OpenErr(path) == Err("open", "failed to open file {}", path, {})

CreateErr(path) == Err("create", "failed to create file {}", path, {})

EncodeErr == Err("encode", "encode error", NoPath, {})

ProjectErr == Err("project", "project load error", NoPath, {})

(* ------------------------------- doms ---------------------------------- *)

\* A WeakDom / RojoTree: an arena of instances keyed by identifier.
\* Identifiers are allocated from `next` and never reused.
NoTree == [root |-> 0, next |-> 1, inst |-> <<>>]

Instance(c, n, ps, parent) ==
    [class |-> c, name |-> n, props |-> ps, children |-> <<>>, parent |-> parent]

\* WeakDom::new(builder): a dom holding only its root.
WeakDomNew(c, n, ps) ==
    [root |-> 1, next |-> 2, inst |-> (1 :> Instance(c, n, ps, 0))]

RECURSIVE InsertAll(_, _, _, _)
\* Insert `node` (a detached subtree) as the last child of `parent`.
InsertSubtree(dom, parent, node) ==
    LET id == dom.next
        withNode ==
            [dom EXCEPT
                !.next = id + 1,
                !.inst = (id :> Instance(node.class, node.name, node.props, parent))
                         @@ [@ EXCEPT ![parent].children = Append(@, id)]]
    IN InsertAll(withNode, id, node.children, 1)

InsertAll(dom, parent, nodes, i) ==
    IF i > Len(nodes) THEN dom
    ELSE InsertAll(InsertSubtree(dom, parent, nodes[i]), parent, nodes, i + 1)

RECURSIVE EncodeNode(_, _)
\* The detached description of the subtree rooted at `id`.
EncodeNode(dom, id) ==
    LET it == dom.inst[id]
    IN Node(it.class, it.name, it.props,
            [i \in 1..Len(it.children) |-> EncodeNode(dom, it.children[i])])

RECURSIVE Descendants(_, _)
\* `id` and every instance below it.
Descendants(dom, id) ==
    {id} \cup UNION {Descendants(dom, dom.inst[id].children[i]) :
                        i \in 1..Len(dom.inst[id].children)}

(* ------------------------------ files ---------------------------------- *)

\* What a path holds: nothing ("absent"), bytes no codec reads ("garbage"),
\* or the top-level instances a codec ("binary", "xml") wrote.
FileOf(fmt, tops) == [fmt |-> fmt, tops |-> tops]

Absent == FileOf("absent", <<>>)

Garbage == FileOf("garbage", <<>>)

\* A result: Ok(dom) or Err(err).
Ok(dom) == [ok |-> TRUE, dom |-> dom, err |-> NoErr]

Fail(err) == [ok |-> FALSE, dom |-> NoTree, err |-> err]

\* rbx_binary::from_reader / rbx_xml::from_reader: the decoded instances
\* become the children of a fresh DataModel root; None when the bytes are
\* not of the codec's format.
FromReader(content, codec) ==
    IF content.fmt = codec
    THEN Some(InsertAll(WeakDomNew("DataModel", "DataModel", NoProps), 1,
                        content.tops, 1))
    ELSE None

\* rbx_binary::to_writer / rbx_xml::to_writer: the subtrees of `ids`, in
\* the order given, become the file's top-level instances.
ToWriter(tree, ids, codec) ==
    FileOf(codec, [i \in 1..Len(ids) |-> EncodeNode(tree, ids[i])])

\* ProcessModelDom, were the first of several top-level instances taken.
ProcessModelDomFirst(dom) ==
    LET temp_children == dom.inst[dom.root].children
    IN IF Len(temp_children) >= 1
       THEN LET real_root == dom.inst[temp_children[1]]
                new_tree == WeakDomNew(real_root.class, real_root.class,
                                       real_root.props)
                children == [i \in 1..Len(real_root.children) |->
                                EncodeNode(dom, real_root.children[i])]
            IN Ok(InsertAll(new_tree, new_tree.root, children, 1))
       ELSE Fail(ModelShapeErr)

\* ProcessModelDom, were the decoded dom returned in place of the new one.
ProcessModelDomKeepsRoot(dom) ==
    IF Len(dom.inst[dom.root].children) = 1 THEN Ok(dom) ELSE Fail(ModelShapeErr)

\* process_model_dom: a model must hold exactly one top-level instance; it
\* becomes the root of a new dom (InstanceBuilder::new(class) names the new
\* root after its class), its properties are copied and its children are
\* cloned and transferred under the new root in order.
ProcessModelDom(dom) ==
    LET temp_children == dom.inst[dom.root].children
    IN IF Len(temp_children) = 1
       THEN LET real_root == dom.inst[temp_children[1]]
                new_tree == WeakDomNew(real_root.class, real_root.class,
                                       real_root.props)
                children == [i \in 1..Len(real_root.children) |->
                                EncodeNode(dom, real_root.children[i])]
            IN Ok(InsertAll(new_tree, new_tree.root, children, 1))
       ELSE Fail(ModelShapeErr)

\* read_dom: open the file, decode it with the codec of its kind, and for
\* the model kinds pass the decoded dom through process_model_dom.
ReadDom(content, path, file_kind) ==
    IF content.fmt = "absent" THEN Fail(OpenErr(path))
    ELSE LET decoded == FromReader(content, CodecOf(file_kind))
         IN IF decoded = None THEN Fail(DecodeErr(path, file_kind))
            ELSE IF IsModelKind(file_kind) THEN ProcessModelDom(decoded[1])
            ELSE Ok(decoded[1])

\* TopLevelIds, were every kind written the way a place is.
TopLevelIdsChildren(tree, kind) == tree.inst[tree.root].children

\* The identifiers write_tree_to_file hands to the encoder: the root for the
\* model kinds, the root's children for the place kinds.
TopLevelIds(tree, kind) ==
    IF IsModelKind(kind) THEN <<tree.root>>
    ELSE tree.inst[tree.root].children

\* write_tree_to_file's encoding of the tree for a kind.
WriteTreeToFile(tree, kind) == ToWriter(tree, TopLevelIds(tree, kind), CodecOf(kind))

(* ---------------------- snapshots, diff and apply ---------------------- *)

\* InstanceSnapshot::from_tree: the detached description of a dom.
FromTree(dom, id) == EncodeNode(dom, id)

\* RojoTree::new: a tree built from a snapshot.
RojoTreeNew(snapshot) ==
    InsertAll(WeakDomNew(snapshot.class, snapshot.name, snapshot.props), 1,
              snapshot.children, 1)

EmptyPatch == [added |-> <<>>, removed |-> <<>>, updated |-> <<>>]

\* The property deltas of one paired instance: Some(v) is Set(v), None is
\* Clear.
PropertyDelta(snapshot, it) ==
    LET setKeys == {k \in DOMAIN snapshot.props :
                        k \notin DOMAIN it.props \/ it.props[k] /= snapshot.props[k]}
        clearKeys == DOMAIN it.props \ DOMAIN snapshot.props
    IN [k \in setKeys \cup clearKeys |->
            IF k \in setKeys THEN Some(snapshot.props[k]) ELSE None]

\* The update entry of one paired instance.
PatchUpdate(id, snapshot, it) ==
    [id |-> id,
     changed_name |-> IF snapshot.name /= it.name THEN Some(snapshot.name) ELSE None,
     changed_class_name |->
        IF snapshot.class /= it.class THEN Some(snapshot.class) ELSE None,
     changed_properties |-> PropertyDelta(snapshot, it)]

IsEmptyUpdate(u) ==
    /\ u.changed_name = None
    /\ u.changed_class_name = None
    /\ DOMAIN u.changed_properties = {}

\* The first child not yet paired that has the snapshot's class and name
\* (0 when there is none): ambiguous children pair in index order.
FirstMatch(snapshot, tree, kids, paired) ==
    LET c == {i \in 1..Len(kids) :
                /\ kids[i] \notin paired
                /\ tree.inst[kids[i]].name = snapshot.name
                /\ tree.inst[kids[i]].class = snapshot.class}
    IN IF c = {} THEN 0 ELSE CHOOSE i \in c : \A j \in c : i <= j

RECURSIVE ComputeChildrenPatches(_, _, _, _, _, _)
\* The diff of a snapshot against the instance `id` it corresponds to.
ComputePatchSetInternal(snapshot, tree, id, patch) ==
    LET u == PatchUpdate(id, snapshot, tree.inst[id])
        p1 == IF IsEmptyUpdate(u) THEN patch
              ELSE [patch EXCEPT !.updated = Append(@, u)]
    IN ComputeChildrenPatches(snapshot, tree, id, 1, {}, p1)

ComputeChildrenPatches(snapshot, tree, id, i, paired, patch) ==
    LET kids == tree.inst[id].children
    IN IF i > Len(snapshot.children)
       THEN [patch EXCEPT
                !.removed = @ \o SelectSeq(kids, LAMBDA c : c \notin paired)]
       ELSE LET m == FirstMatch(snapshot.children[i], tree, kids, paired)
            IN IF m = 0
               THEN ComputeChildrenPatches(snapshot, tree, id, i + 1, paired,
                        [patch EXCEPT !.added =
                            Append(@, [parent_id |-> id,
                                       instance |-> snapshot.children[i]])])
               ELSE ComputeChildrenPatches(snapshot, tree, id, i + 1,
                        paired \cup {kids[m]},
                        ComputePatchSetInternal(snapshot.children[i], tree,
                                                kids[m], patch))

\* compute_patch_set
ComputePatchSet(snapshot, tree, id) ==
    ComputePatchSetInternal(snapshot, tree, id, EmptyPatch)

\* One added entry: the subtree is inserted under its parent; an unknown
\* parent leaves the tree as it is.
ApplyAdd(tree, add) ==
    IF add.parent_id \in DOMAIN tree.inst
    THEN InsertSubtree(tree, add.parent_id, add.instance)
    ELSE tree

\* One update entry: Set overwrites, Clear removes the property.
ApplyUpdate(tree, u) ==
    IF u.id \notin DOMAIN tree.inst THEN tree
    ELSE LET it == tree.inst[u.id]
             cp == u.changed_properties
             setKeys == {k \in DOMAIN cp : IsSome(cp[k])}
             clearKeys == DOMAIN cp \ setKeys
             props == [k \in (DOMAIN it.props \cup setKeys) \ clearKeys |->
                          IF k \in setKeys THEN cp[k][1] ELSE it.props[k]]
         IN [tree EXCEPT !.inst[u.id] =
                [it EXCEPT
                    !.name = IF IsSome(u.changed_name) THEN u.changed_name[1] ELSE @,
                    !.class = IF IsSome(u.changed_class_name)
                              THEN u.changed_class_name[1] ELSE @,
                    !.props = props]]

\* One removal: the subtree goes, and its root leaves its parent's children.
ApplyRemove(tree, id) ==
    IF id \notin DOMAIN tree.inst \/ id = tree.root THEN tree
    ELSE LET gone == Descendants(tree, id)
             parent == tree.inst[id].parent
         IN [tree EXCEPT !.inst =
                [j \in DOMAIN tree.inst \ gone |->
                    IF j = parent
                    THEN [tree.inst[j] EXCEPT
                            !.children = SelectSeq(@, LAMBDA c : c /= id)]
                    ELSE tree.inst[j]]]

RECURSIVE ApplyAdds(_, _, _)
ApplyAdds(tree, added, i) ==
    IF i > Len(added) THEN tree
    ELSE ApplyAdds(ApplyAdd(tree, added[i]), added, i + 1)

RECURSIVE ApplyUpdates(_, _, _)
ApplyUpdates(tree, updated, i) ==
    IF i > Len(updated) THEN tree
    ELSE ApplyUpdates(ApplyUpdate(tree, updated[i]), updated, i + 1)

RECURSIVE ApplyRemoves(_, _, _)
ApplyRemoves(tree, removed, i) ==
    IF i > Len(removed) THEN tree
    ELSE ApplyRemoves(ApplyRemove(tree, removed[i]), removed, i + 1)

\* apply_patch_set: added first, then updated, then removed.
ApplyPatchSet(tree, patch) ==
    ApplyRemoves(
        ApplyUpdates(ApplyAdds(tree, patch.added, 1), patch.updated, 1),
        patch.removed, 1)

\* RetainSome, were nothing filtered out.
RetainAll(cp) == cp

\* changed_properties.retain(|_, value| value.is_some())
RetainSome(cp) == [k \in {x \in DOMAIN cp : IsSome(cp[x])} |-> cp[k]]

\* FilterPatch, were the removals left in the patch.
FilterPatchKeepsRemoved(patch) ==
    [patch EXCEPT
        !.updated = [i \in 1..Len(patch.updated) |->
                        [patch.updated[i] EXCEPT
                            !.changed_properties = RetainSome(@)]]]

\* FilterPatch, were the added list cleared in place of the removed one.
FilterPatchClearsAdded(patch) ==
    [patch EXCEPT
        !.added = <<>>,
        !.updated = [i \in 1..Len(patch.updated) |->
                        [patch.updated[i] EXCEPT
                            !.changed_properties = RetainSome(@)]]]

\* FilterPatch, were an update left without deltas dropped from the list.
FilterPatchDropsEmpty(patch) ==
    [patch EXCEPT
        !.removed = <<>>,
        !.updated = SelectSeq(
                        [i \in 1..Len(patch.updated) |->
                            [patch.updated[i] EXCEPT
                                !.changed_properties = RetainSome(@)]],
                        LAMBDA u : ~IsEmptyUpdate(u))]

\* The sync policy of SyncCommand::run: removed_instances.clear(), and
\* every update keeps only the Set deltas.
FilterPatch(patch) ==
    [patch EXCEPT
        !.removed = <<>>,
        !.updated = [i \in 1..Len(patch.updated) |->
                        [patch.updated[i] EXCEPT
                            !.changed_properties = RetainSome(@)]]]

(* ------------------------- inputs of the model ------------------------- *)

\* Top-level instances an input file may hold.
TopA == Node("Folder", "a", P1Q1, <<Node("Part", "b", Q1, <<>>)>>)

TopB == Node("Part", "b", Q2, <<>>)

\* Shares class and name with TopA: the two pair in index order.
TopC == Node("Folder", "a", P2, <<>>)

TopNodes == {TopA, TopB, TopC}

Tops == UNION {[1..n -> TopNodes] : n \in 0..MaxTop}

\* Children the project gives its root.
KidA == Node("Folder", "a", P1, <<Node("Part", "b", P1, <<>>)>>)

KidC == Node("Part", "c", P1, <<Node("Folder", "a", NoProps, <<>>)>>)

\* What TopB holds already.
KidB == Node("Part", "b", Q2, <<>>)

KidNodes == {KidA, KidB, KidC}

KidSeqs == UNION {[1..n -> KidNodes] : n \in 0..MaxKids}

\* The snapshots snapshot_from_vfs may yield.
Snapshots ==
    {Node("DataModel", "proj", NoProps, kids) : kids \in KidSeqs}
    \cup {Node("Folder", "proj", P2, kids) : kids \in KidSeqs}

\* One fixed project and one fixed file content, for the configurations
\* that vary the paths only.
PlainSnapshot == Node("DataModel", "proj", NoProps, <<KidA>>)

PlainFile(ext) ==
    FileOf(IF ext \in {"rbxlx", "rbxmx"} THEN "xml" ELSE "binary", <<TopA>>)

\* A configuration: the command line, what the input path and the output
\* path hold, and what the project directory yields (None: it does not load).
Config(input, output, content, old, project) ==
    [input |-> input, output |-> output, content |-> content, old |-> old,
     project |-> project]

\* Every pair of extensions, with a plain file and a plain project.
PathConfigs ==
    {Config(Path("in", ie), Path("out", oe), PlainFile(ie), old, Some(PlainSnapshot)) :
        ie \in Exts, oe \in Exts, old \in {Absent, Garbage}}
    \cup {Config(Path("in", ie), Path("in", ie), PlainFile(ie), PlainFile(ie),
                 Some(PlainSnapshot)) : ie \in Exts}

\* Inputs that do not open, do not decode or (for the model kinds) do not
\* hold a single top-level instance, and projects that do not load; the
\* output is another path or the input path itself.
BrokenInputs(ie) ==
    {Absent, Garbage,
     FileOf(IF ie \in {"rbxlx", "rbxmx"} THEN "binary" ELSE "xml", <<TopA>>),
     FileOf(PlainFile(ie).fmt, <<>>),
     FileOf(PlainFile(ie).fmt, <<TopA, TopB>>)}

BrokenConfigs ==
    UNION {{Config(Path("in", ie), Path("out", "rbxl"), content, Garbage, project) :
                content \in BrokenInputs(ie),
                project \in {None, Some(PlainSnapshot)}} : ie \in KnownExts}
    \cup UNION {{Config(Path("in", ie), Path("in", ie), content, content, project) :
                content \in BrokenInputs(ie),
                project \in {None, Some(PlainSnapshot)}} : ie \in KnownExts}
    \cup {Config(Path("in", ie), Path("out", "rbxl"), PlainFile(ie), Garbage, None) :
            ie \in KnownExts}

\* Every input tree against every project, for every pair of kinds.
MergeConfigs ==
    {Config(Path("in", ie), Path("out", oe), FileOf(PlainFile(ie).fmt, tops),
            Garbage, Some(snapshot)) :
        ie \in KnownExts, oe \in KnownExts, tops \in Tops, snapshot \in Snapshots}

Configs == PathConfigs \cup BrokenConfigs \cup MergeConfigs

(* ------------------------------- state --------------------------------- *)

VARIABLES
    cmd,               \* SyncCommand: project, input, output
    project_src,       \* what the project directory yields
    files,             \* the file system: path -> content
    pc,                \* the position of run
    run,               \* 1: the first invocation, 2: the second
    input_kind,        \* run's locals
    output_kind,
    desired_snapshot,
    tree_old,
    patch_set,
    err,               \* the error run returned
    io,                \* the effects of this invocation, in order
    files_start,       \* history: the file system when the invocation began
    tree_in,           \* history: tree_old as loaded from the input
    patch_raw,         \* history: patch_set as compute_patch_set returned it
    out1,              \* history: what the first invocation wrote
    tree1              \* history: tree_old at the end of the first invocation

vars == <<cmd, project_src, files, pc, run, input_kind, output_kind,
          desired_snapshot, tree_old, patch_set, err, io, files_start,
          tree_in, patch_raw, out1, tree1>>

locals == <<input_kind, output_kind, desired_snapshot, tree_old, patch_set>>

history == <<tree_in, patch_raw, out1, tree1>>

Init ==
    \E c \in Configs :
        /\ cmd = [project |-> "", input |-> c.input, output |-> c.output]
        /\ project_src = c.project
        /\ files = (c.output :> c.old) @@ (c.input :> c.content)
        /\ files_start = files
        /\ pc = "start"
        /\ run = 1
        /\ input_kind = None
        /\ output_kind = None
        /\ desired_snapshot = None
        /\ tree_old = NoTree
        /\ patch_set = EmptyPatch
        /\ err = NoErr
        /\ io = <<>>
        /\ tree_in = NoTree
        /\ patch_raw = EmptyPatch
        /\ out1 = Absent
        /\ tree1 = NoTree

\* run returns Err(e): `?` leaves every later step undone.
Bail(e) ==
    /\ pc' = "failed"
    /\ err' = e

(* ------------------------------ actions -------------------------------- *)

\* DetectKinds, were the output file created as soon as its kind is known.
DetectKindsCreatesOutput ==
    /\ pc = "start"
    /\ IF FromPath(cmd.input) = None
       THEN /\ Bail(UNKNOWN_INPUT_KIND_ERR)
            /\ UNCHANGED <<input_kind, output_kind, files, io>>
       ELSE IF FromPath(cmd.output) = None
       THEN /\ Bail(UNKNOWN_OUTPUT_KIND_ERR)
            /\ input_kind' = FromPath(cmd.input)
            /\ UNCHANGED <<output_kind, files, io>>
       ELSE /\ pc' = "kinds"
            /\ input_kind' = FromPath(cmd.input)
            /\ output_kind' = FromPath(cmd.output)
            /\ files' = [files EXCEPT ![cmd.output] = Garbage]
            /\ io' = Append(io, "create_output")
            /\ UNCHANGED err
    /\ UNCHANGED <<cmd, project_src, run, desired_snapshot, tree_old,
                   patch_set, files_start, history>>

\* FileKind::from_path on the input path, then on the output path.
DetectKinds ==
    /\ pc = "start"
    /\ IF FromPath(cmd.input) = None
       THEN /\ Bail(UNKNOWN_INPUT_KIND_ERR)
            /\ UNCHANGED <<input_kind, output_kind>>
       ELSE IF FromPath(cmd.output) = None
       THEN /\ Bail(UNKNOWN_OUTPUT_KIND_ERR)
            /\ input_kind' = FromPath(cmd.input)
            /\ UNCHANGED output_kind
       ELSE /\ pc' = "kinds"
            /\ input_kind' = FromPath(cmd.input)
            /\ output_kind' = FromPath(cmd.output)
            /\ UNCHANGED err
    /\ UNCHANGED <<cmd, project_src, files, run, desired_snapshot, tree_old,
                   patch_set, io, files_start, history>>

\* Project::load_initial_project and snapshot_from_vfs.
LoadProject ==
    /\ pc = "kinds"
    /\ io' = Append(io, "load_project")
    /\ IF project_src = None
       THEN /\ Bail(ProjectErr)
            /\ UNCHANGED desired_snapshot
       ELSE /\ pc' = "project"
            /\ desired_snapshot' = project_src
            /\ UNCHANGED err
    /\ UNCHANGED <<cmd, project_src, files, run, input_kind, output_kind,
                   tree_old, patch_set, files_start, history>>

\* read_dom on the input, then RojoTree::new(InstanceSnapshot::from_tree(..)).
ReadInput ==
    /\ pc = "project"
    /\ LET r == ReadDom(files[cmd.input], cmd.input, input_kind[1])
           loaded == RojoTreeNew(FromTree(r.dom, r.dom.root))
       IN /\ io' = io \o (IF files[cmd.input].fmt = "absent"
                          THEN <<"open_input_failed">>
                          ELSE <<"open_input", "read_input", "close_input">>)
          /\ IF r.ok
             THEN /\ pc' = "read"
                  /\ tree_old' = loaded
                  /\ tree_in' = loaded
                  /\ UNCHANGED err
             ELSE /\ Bail(r.err)
                  /\ UNCHANGED <<tree_old, tree_in>>
    /\ UNCHANGED <<cmd, project_src, files, run, input_kind, output_kind,
                   desired_snapshot, patch_set, files_start, patch_raw, out1,
                   tree1>>

\* compute_patch_set(desired_snapshot, &tree_old, root_id)
ComputePatch ==
    /\ pc = "read"
    /\ pc' = "diffed"
    /\ patch_set' = ComputePatchSet(desired_snapshot[1], tree_old, tree_old.root)
    /\ patch_raw' = patch_set'
    /\ io' = Append(io, "compute_patch")
    /\ UNCHANGED <<cmd, project_src, files, run, input_kind, output_kind,
                   desired_snapshot, tree_old, err, files_start, tree_in, out1,
                   tree1>>

\* The sync policy: removals and Clear deltas leave the patch.
Filter ==
    /\ pc = "diffed"
    /\ pc' = "filtered"
    /\ patch_set' = FilterPatch(patch_set)
    /\ io' = Append(io, "filter_patch")
    /\ UNCHANGED <<cmd, project_src, files, run, input_kind, output_kind,
                   desired_snapshot, tree_old, err, files_start, history>>

\* apply_patch_set(&mut tree_old, patch_set)
ApplyPatch ==
    /\ pc = "filtered"
    /\ pc' = "applied"
    /\ tree_old' = ApplyPatchSet(tree_old, patch_set)
    /\ io' = Append(io, "apply_patch")
    /\ UNCHANGED <<cmd, project_src, files, run, input_kind, output_kind,
                   desired_snapshot, patch_set, err, files_start, history>>

\* write_tree_to_file: File::create truncates the output, the encoder and
\* the flush fill it.  Creating may fail (nothing is touched) and encoding
\* may fail (the file is left truncated or partial).
WriteOutput ==
    /\ pc = "applied"
    /\ \E outcome \in {"ok", "create_fails", "encode_fails"} :
        CASE outcome = "create_fails" ->
                /\ Bail(CreateErr(cmd.output))
                /\ io' = Append(io, "create_output_failed")
                /\ UNCHANGED files
          [] outcome = "encode_fails" ->
                /\ Bail(EncodeErr)
                /\ io' = Append(io, "create_output")
                /\ files' = [files EXCEPT ![cmd.output] = Garbage]
          [] OTHER ->
                /\ pc' = "done"
                /\ io' = io \o <<"create_output", "write_output">>
                /\ files' = [files EXCEPT ![cmd.output] =
                                WriteTreeToFile(tree_old, output_kind[1])]
                /\ UNCHANGED err
    /\ UNCHANGED <<cmd, project_src, run, locals, files_start, history>>

\* The command is run again on the file it wrote, with the same project.
Rerun ==
    /\ pc = "done"
    /\ run = 1
    /\ run' = 2
    /\ pc' = "start"
    /\ cmd' = [cmd EXCEPT !.input = cmd.output]
    /\ out1' = files[cmd.output]
    /\ tree1' = tree_old
    /\ files_start' = files
    /\ input_kind' = None
    /\ output_kind' = None
    /\ desired_snapshot' = None
    /\ tree_old' = NoTree
    /\ patch_set' = EmptyPatch
    /\ io' = <<>>
    /\ tree_in' = NoTree
    /\ patch_raw' = EmptyPatch
    /\ UNCHANGED <<project_src, files, err>>

Next ==
    \/ DetectKinds
    \/ LoadProject
    \/ ReadInput
    \/ ComputePatch
    \/ Filter
    \/ ApplyPatch
    \/ WriteOutput
    \/ Rerun

Spec == Init /\ [][Next]_vars

(* ------------------------------ claims --------------------------------- *)

InputIsModel == cmd.input.ext \in {"rbxm", "rbxmx"}

OutputIsModel == cmd.output.ext \in {"rbxm", "rbxmx"}

OutputIsPlace == cmd.output.ext \in {"rbxl", "rbxlx"}

Logged(e) == \E i \in 1..Len(io) : io[i] = e

\* The raw patch sets property k of instance id.
SetByPatch(id, k) ==
    \E i \in 1..Len(patch_raw.updated) :
        /\ patch_raw.updated[i].id = id
        /\ k \in DOMAIN patch_raw.updated[i].changed_properties
        /\ IsSome(patch_raw.updated[i].changed_properties[k])

\* The raw patch clears property k of instance id.
ClearedByPatch(id, k) ==
    \E i \in 1..Len(patch_raw.updated) :
        /\ patch_raw.updated[i].id = id
        /\ k \in DOMAIN patch_raw.updated[i].changed_properties
        /\ patch_raw.updated[i].changed_properties[k] = None

\* C1: once the patch is filtered its removed set is empty, and once it is
\* applied every instance of the input tree is still in the tree, under the
\* parent it had and reachable from the root.
C1_InputInstancesSurvive ==
    /\ pc \in {"filtered", "applied", "done"} => patch_set.removed = <<>>
    /\ pc \in {"applied", "done"} =>
        \A id \in DOMAIN tree_in.inst :
            /\ id \in DOMAIN tree_old.inst
            /\ tree_old.inst[id].parent = tree_in.inst[id].parent
            /\ id \in Descendants(tree_old, tree_old.root)

\* The diff asked for a removal, and the instance is there after the apply.
C1_Witness ==
    /\ pc = "applied"
    /\ patch_raw.removed /= <<>>
    /\ \A i \in 1..Len(patch_raw.removed) : patch_raw.removed[i] \in DOMAIN tree_old.inst

\* C2: the filtered patch holds no Clear delta, and after the apply every
\* property of an input instance that the patch does not Set (the snapshot
\* does not list it for that instance) is present with its input value.
C2_ForeignPropertiesKept ==
    /\ pc \in {"filtered", "applied", "done"} =>
        \A i \in 1..Len(patch_set.updated) :
            \A k \in DOMAIN patch_set.updated[i].changed_properties :
                IsSome(patch_set.updated[i].changed_properties[k])
    /\ pc \in {"applied", "done"} =>
        \A id \in DOMAIN tree_in.inst :
            \A k \in DOMAIN tree_in.inst[id].props :
                ~SetByPatch(id, k) =>
                    /\ id \in DOMAIN tree_old.inst
                    /\ k \in DOMAIN tree_old.inst[id].props
                    /\ tree_old.inst[id].props[k] = tree_in.inst[id].props[k]

\* The diff asked to clear a property, and it is there after the apply.
C2_Witness ==
    /\ pc = "applied"
    /\ \E id \in DOMAIN tree_in.inst :
        \E k \in DOMAIN tree_in.inst[id].props :
            /\ ClearedByPatch(id, k)
            /\ k \in DOMAIN tree_old.inst[id].props

RECURSIVE Embeds(_, _, _)
\* The instance `id` carries the snapshot: its class, its name, every
\* property it sets, and for each of its children a child of its own that
\* carries it (distinct children for distinct snapshot children).
Embeds(snapshot, tree, id) ==
    /\ id \in DOMAIN tree.inst
    /\ tree.inst[id].class = snapshot.class
    /\ tree.inst[id].name = snapshot.name
    /\ \A k \in DOMAIN snapshot.props :
        /\ k \in DOMAIN tree.inst[id].props
        /\ tree.inst[id].props[k] = snapshot.props[k]
    /\ Len(snapshot.children) <= Len(tree.inst[id].children)
    /\ \E f \in [1..Len(snapshot.children) -> 1..Len(tree.inst[id].children)] :
        /\ \A i, j \in DOMAIN f : i /= j => f[i] /= f[j]
        /\ \A i \in DOMAIN f :
            Embeds(snapshot.children[i], tree, tree.inst[id].children[f[i]])

\* C3: after the apply the tree carries the whole desired snapshot: every
\* instance of it has its counterpart and every property it sets has the
\* desired value.
C3_DesiredApplied ==
    pc \in {"applied", "done"} => Embeds(desired_snapshot[1], tree_old, tree_old.root)

\* The patch added an instance and Set a property over a different input
\* value.
C3_Witness ==
    /\ pc = "applied"
    /\ patch_raw.added /= <<>>
    /\ \E id \in DOMAIN tree_in.inst :
        \E k \in DOMAIN tree_in.inst[id].props :
            /\ SetByPatch(id, k)
            /\ tree_old.inst[id].props[k] /= tree_in.inst[id].props[k]

\* C4: with an input or output extension outside rbxl, rbxlx, rbxm, rbxmx
\* run never gets past the detection: it fails with one of the two
\* extension errors, and no project is loaded, no file opened or created,
\* no tree and no patch built.
C4_UnknownExtensionFailsFirst ==
    (cmd.input.ext \notin KnownExts \/ cmd.output.ext \notin KnownExts) =>
        /\ pc \in {"start", "failed"}
        /\ pc = "failed" =>
            err = IF cmd.input.ext \notin KnownExts
                  THEN UNKNOWN_INPUT_KIND_ERR ELSE UNKNOWN_OUTPUT_KIND_ERR
        /\ io = <<>>
        /\ files = files_start
        /\ desired_snapshot = None
        /\ tree_old = NoTree
        /\ patch_set = EmptyPatch

\* A known input extension with an unknown output extension has failed.
C4_Witness ==
    /\ pc = "failed"
    /\ cmd.input.ext \in KnownExts
    /\ cmd.output.ext \notin KnownExts
    /\ files[cmd.input].fmt \in {"binary", "xml"}

\* The input bytes decode with the codec of the input extension.
InputDecodes ==
    files_start[cmd.input].fmt =
        (IF cmd.input.ext \in {"rbxl", "rbxm"} THEN "binary" ELSE "xml")

\* C5: once a model input that decodes has been read, either it held one
\* top-level instance and the tree's root has that instance's class and
\* properties and its children, in order, as the root's children; or it held
\* none or several, run failed on the model's shape and there is no tree.
C5_SingleRootModel ==
    (InputIsModel /\ InputDecodes /\ Logged("read_input")) =>
        LET tops == files_start[cmd.input].tops
        IN IF Len(tops) = 1
           THEN /\ err /= ModelShapeErr
                /\ tree_in /= NoTree
                /\ tree_in.inst[tree_in.root].class = tops[1].class
                /\ tree_in.inst[tree_in.root].props = tops[1].props
                /\ EncodeNode(tree_in, tree_in.root).children = tops[1].children
           ELSE /\ pc = "failed"
                /\ err = ModelShapeErr
                /\ tree_in = NoTree
                /\ tree_old = NoTree

\* A model whose single top-level instance has properties and a child has
\* been read.
C5_Witness ==
    /\ pc = "read"
    /\ InputIsModel
    /\ Len(files_start[cmd.input].tops) = 1
    /\ files_start[cmd.input].tops[1].children /= <<>>
    /\ DOMAIN files_start[cmd.input].tops[1].props /= {}

\* C6: what a successful run leaves at the output path follows from the
\* output extension: the codec, and as top-level instances the root's
\* children in order (place) or the root alone (model).
C6_OutputFormatFollowsOutputExtension ==
    pc = "done" =>
        LET out == files[cmd.output]
            root == tree_old.inst[tree_old.root]
        IN /\ out.fmt = (IF cmd.output.ext \in {"rbxl", "rbxm"} THEN "binary" ELSE "xml")
           /\ OutputIsPlace =>
                out.tops = [i \in 1..Len(root.children) |->
                                EncodeNode(tree_old, root.children[i])]
           /\ OutputIsModel => out.tops = <<EncodeNode(tree_old, tree_old.root)>>

\* A model input was written as a place with several top-level instances.
C6_Witness ==
    /\ pc = "done"
    /\ run = 1
    /\ InputIsModel
    /\ OutputIsPlace
    /\ Len(files[cmd.output].tops) >= 2

\* The path a failure is about.
OffendingPath == IF err.stage = "output_kind" THEN cmd.output ELSE cmd.input

\* C7: every failure of the four kinds names the offending path and the
\* expected extensions.
C7_FailuresNamePathAndFormats ==
    (pc = "failed" /\ err.stage \in {"input_kind", "output_kind", "decode", "model_shape"}) =>
        /\ err.path = OffendingPath
        /\ err.exts = KnownExts

\* C8: the filter leaves the added list, the list of updates (identifiers,
\* order, name and class changes) and every Set delta as they were; each
\* update's property delta is the raw one without its Clear entries, so an
\* update of Clear deltas only stays, with an empty delta.
C8_FilterKeepsTheRest ==
    pc \in {"filtered", "applied", "done"} =>
        /\ patch_set.added = patch_raw.added
        /\ Len(patch_set.updated) = Len(patch_raw.updated)
        /\ \A i \in 1..Len(patch_raw.updated) :
            LET raw == patch_raw.updated[i]
                kept == patch_set.updated[i]
            IN /\ kept.id = raw.id
               /\ kept.changed_name = raw.changed_name
               /\ kept.changed_class_name = raw.changed_class_name
               /\ DOMAIN kept.changed_properties =
                    {k \in DOMAIN raw.changed_properties :
                        IsSome(raw.changed_properties[k])}
               /\ \A k \in DOMAIN kept.changed_properties :
                    kept.changed_properties[k] = raw.changed_properties[k]

\* An update that held Clear deltas only is in the filtered patch, empty.
C8_Witness ==
    /\ pc = "filtered"
    /\ \E i \in 1..Len(patch_raw.updated) :
        /\ DOMAIN patch_raw.updated[i].changed_properties /= {}
        /\ \A k \in DOMAIN patch_raw.updated[i].changed_properties :
            patch_raw.updated[i].changed_properties[k] = None
        /\ IsEmptyUpdate(patch_set.updated[i])

\* C9: the merge is idempotent: syncing the merged tree again with the same
\* snapshot gives the same tree, and the second invocation, run on the file
\* the first one wrote, writes that same file again.
C9_SecondSyncChangesNothing ==
    /\ pc \in {"applied", "done"} =>
        ApplyPatchSet(tree_old,
            FilterPatch(ComputePatchSet(desired_snapshot[1], tree_old, tree_old.root)))
        = tree_old
    /\ (run = 2 /\ pc = "done") => files[cmd.output] = out1

\* The second invocation is done, and its raw patch held removals and Clear
\* deltas.
C9_Witness ==
    /\ run = 2
    /\ pc = "done"
    /\ patch_raw.removed /= <<>>
    /\ \E id \in DOMAIN tree_in.inst :
        \E k \in DOMAIN tree_in.inst[id].props : ClearedByPatch(id, k)

\* The effects that precede the creation of the output file.
BeforeCreate ==
    <<"load_project", "open_input", "read_input", "close_input",
      "compute_patch", "filter_patch", "apply_patch">>

\* C10: the output is created only after every earlier step has succeeded
\* and the input is closed; until then, and in every run that fails before
\* the write, the file system is as the invocation found it.
C10_OutputCreatedLast ==
    /\ Logged("create_output") =>
        /\ Len(io) > Len(BeforeCreate)
        /\ SubSeq(io, 1, Len(BeforeCreate)) = BeforeCreate
        /\ io[Len(BeforeCreate) + 1] = "create_output"
    /\ files /= files_start => Logged("create_output")
    /\ (pc = "failed" /\ err.stage \notin {"encode"}) => files = files_start

\* A run whose input and output are one path failed while reading it.
C10_Witness ==
    /\ pc = "failed"
    /\ cmd.input = cmd.output
    /\ err.stage \in {"decode", "model_shape"}
    /\ files[cmd.output] = files_start[cmd.output]
    /\ files[cmd.output].fmt /= "absent"

====
